---- MODULE Spec2Model ----
(***************************************************************************)
(* Marathon autoscaler: the control loop of Autoscaler.run, the hysteresis *)
(* counters of Autoscaler.autoscale, the target computation of             *)
(* Autoscaler.scale_app and the memory scaling mode (ScaleByMemory on top  *)
(* of AbstractMode.scale_direction).                                       *)
(*                                                                         *)
(* One step of the model is one iteration of the `while True` loop body    *)
(* (the try block with its except clause), followed by a separate step for *)
(* the `finally: self.timer()` sleep.                                      *)
(***************************************************************************)
EXTENDS Integers, Sequences, FiniteSets, TLC

(***************************************************************************)
(* Bounds of the model.                                                    *)
(***************************************************************************)
\* scale_up / cool_down are not bounded by the code when the actuator keeps
\* raising; cycles that would push a counter past this bound are not taken.
MaxStreak == 4
\* largest instance count the application inventory reports
MaxReported == 10
\* largest current instance count fed to the target calculation on its own
MaxCurrent == 33
\* the largest numerator of a sample and the largest threshold of a range in
\* a threshold comparison on its own
MaxSample == 10
MaxThreshold == 4

(***************************************************************************)
(* Python floats.  autoscale_multiplier is float(args.autoscale_multiplier)*)
(* and scale_app computes math.ceil(app_instances * multiplier) and        *)
(* math.floor(app_instances / multiplier) in IEEE-754 binary64 arithmetic  *)
(* (round to nearest, ties to even).  A float is [man, exp] standing for   *)
(* man * 2^exp, man a natural number written as its bits, least            *)
(* significant bit first.                                                  *)
(***************************************************************************)
RECURSIVE NatBits(_)
NatBits(n) == IF n = 0 THEN <<>> ELSE <<n % 2>> \o NatBits(n \div 2)

RECURSIVE BitsNat(_)
BitsNat(b) == IF b = <<>> THEN 0 ELSE b[1] + 2 * BitsNat(Tail(b))

RECURSIVE Trim(_)
Trim(b) == IF b = <<>> THEN <<>>
           ELSE IF b[Len(b)] = 1 THEN b ELSE Trim(SubSeq(b, 1, Len(b) - 1))

RECURSIVE GeqFrom(_, _, _)
GeqFrom(a, b, i) == IF i = 0 THEN TRUE
                    ELSE IF a[i] # b[i] THEN a[i] > b[i]
                    ELSE GeqFrom(a, b, i - 1)

Geq(a, b) == IF Len(a) # Len(b) THEN Len(a) > Len(b) ELSE GeqFrom(a, b, Len(a))

RECURSIVE SubBits(_, _, _)
SubBits(a, b, borrow) ==
    IF a = <<>> THEN <<>>
    ELSE LET y == (IF b = <<>> THEN 0 ELSE b[1]) + borrow
             d == a[1] - y
         IN  <<d % 2>> \o SubBits(Tail(a), IF b = <<>> THEN <<>> ELSE Tail(b),
                                  IF d < 0 THEN 1 ELSE 0)

RECURSIVE MulSmall(_, _, _)
MulSmall(b, a, carry) ==
    IF b = <<>> THEN NatBits(carry)
    ELSE LET t == a * b[1] + carry
         IN  <<t % 2>> \o MulSmall(Tail(b), a, t \div 2)

RECURSIVE IncBits(_)
IncBits(b) == IF b = <<>> THEN <<1>>
              ELSE IF b[1] = 0 THEN <<1>> \o Tail(b)
              ELSE <<0>> \o IncBits(Tail(b))

Zeros(k) == [i \in 1..k |-> 0]

RECURSIVE DivStep(_, _, _, _, _, _)
DivStep(N, D, i, stop, rem, q) ==
    IF i = stop THEN [q |-> q, r |-> rem]
    ELSE LET r2 == Trim(<<N[i]>> \o rem)
         IN  IF Geq(r2, D)
             THEN DivStep(N, D, i - 1, stop, Trim(SubBits(r2, D, 0)), <<1>> \o q)
             ELSE DivStep(N, D, i - 1, stop, r2, <<0>> \o q)

\* the long division is run 16 quotient bits at a time
RECURSIVE DivFrom(_, _, _, _, _)
DivFrom(N, D, i, rem, q) ==
    IF i = 0 THEN [q |-> Trim(q), r |-> rem]
    ELSE LET stop == IF i > 16 THEN i - 16 ELSE 0
             st   == DivStep(N, D, i, stop, rem, q)
         IN  IF Len(st.q) >= 0 /\ Len(st.r) >= 0
             THEN DivFrom(N, D, stop, st.r, st.q)
             ELSE [q |-> <<>>, r |-> <<>>]

DivMod(N, D) == DivFrom(N, D, Len(N), <<>>, <<>>)

MantBits == 53

RoundBits(q, sticky) ==
    IF Len(q) <= MantBits THEN [man |-> q, shift |-> 0]
    ELSE LET s    == Len(q) - MantBits
             top  == SubSeq(q, s + 1, Len(q))
             rest == sticky \/ \E i \in 1..(s - 1) : q[i] = 1
             up   == q[s] = 1 /\ (rest \/ top[1] = 1)
         IN  [man |-> IF up THEN IncBits(top) ELSE top, shift |-> s]

FloatDiv(N, eN, D, eD) ==
    IF N = <<>> THEN [man |-> <<>>, exp |-> 0]
    ELSE LET k  == Len(D) + MantBits + 3 - Len(N)
             dm == DivMod(Zeros(k) \o N, D)
             rd == RoundBits(dm.q, dm.r # <<>>)
         IN  [man |-> rd.man, exp |-> eN - eD - k + rd.shift]

FloatMulInt(a, x) ==
    LET rd == RoundBits(Trim(MulSmall(x.man, a, 0)), FALSE)
    IN  [man |-> rd.man, exp |-> x.exp + rd.shift]

FloatOfRatio(num, den) == FloatDiv(NatBits(num), 0, NatBits(den), 0)

IntDivFloat(a, x) == FloatDiv(NatBits(a), 0, x.man, x.exp)

Floor(x) ==
    IF x.exp >= 0 THEN BitsNat(Zeros(x.exp) \o x.man)
    ELSE IF -x.exp >= Len(x.man) THEN 0
    ELSE BitsNat(SubSeq(x.man, 1 - x.exp, Len(x.man)))

Ceil(x) ==
    IF x.exp >= 0 THEN Floor(x)
    ELSE Floor(x) + IF \E i \in 1..Len(x.man) : i <= -x.exp /\ x.man[i] = 1 THEN 1 ELSE 0

(***************************************************************************)
(* Configuration (Autoscaler.__init__, fixed for the run).                 *)
(***************************************************************************)
\* AS_AUTOSCALE_MULTIPLIER as written in the configuration, a decimal
\* num/den: "1.5", "2", "1.1", "2.2"
Multipliers == {<<3, 2>>, <<2, 1>>}
CalcMultipliers == Multipliers \cup {<<11, 10>>, <<11, 5>>}
\* the configurations of the control loop:
\* <<scale_up_factor, cool_down_factor, multiplier, min_instances, max_instances>>
Configs ==
    {<<3, 2, <<3, 2>>, 0, 10>>,
     <<3, 3, <<2, 1>>, 3, 10>>,
     <<2, 3, <<3, 2>>, 3, 10>>,
     <<2, 2, <<2, 1>>, 0, 3>>,
     <<2, 1, <<2, 1>>, 1, 10>>,
     <<1, 2, <<3, 2>>, 1, 3>>,
     <<1, 1, <<2, 1>>, 0, 10>>,
     <<1, 3, <<3, 2>>, 3, 3>>}
\* <<min_instances, max_instances>> of a target computation on its own
CalcInstanceBounds == {<<1, 15>>, <<3, 100>>, <<0, 10>>}
\* (min_range, max_range) of the scaling mode
Ranges == {<<20, 80>>}

\* agent statistics of one task: <<>> when get_task_stats returns None,
\* otherwise <<mem_rss_bytes, mem_limit_bytes>>
TaskStats == {<<>>, <<50, 100>>, <<100, 100>>, <<0, 0>>}
Tasks == {"A", "B"}
\* get_app_details(): a dictionary task -> statistics of the task's agent
TaskDicts == UNION {[S -> TaskStats] : S \in SUBSET Tasks}

\* what the PUT of the new instance count does: it is applied, it is turned
\* down with dcos_rest returning normally, or dcos_rest raises
ActuatorOutcomes == {"success", "failure", "raised"}

ABOVE == 1
WITHIN == 0
BELOW == -1

VARIABLES
    pc,                   \* "start": before run(); "loop": top of while True; "timer": in finally;
                          \* "exited": run() left by an exception
    scale_up, cool_down,  \* self.scale_up, self.cool_down
    scale_up_factor, cool_down_factor, autoscale_multiplier,
    min_instances, max_instances,
    min_range, max_range,
    app_instances,        \* what marathon_app.get_app_instances() returns
    last,                 \* what the loop iteration that has just run did
    hist,                 \* the signals fed to autoscale so far
    calc                  \* inputs and result of a target computation on its own

vars == <<pc, scale_up, cool_down, scale_up_factor, cool_down_factor,
          autoscale_multiplier, min_instances, max_instances, min_range,
          max_range, app_instances, last, hist, calc>>

config == <<scale_up_factor, cool_down_factor, autoscale_multiplier,
            min_instances, max_instances, min_range, max_range>>

(***************************************************************************)
(* Autoscaler.scale_app                                                    *)
(***************************************************************************)
\* float(args.autoscale_multiplier)
MultiplierFloat == [m \in CalcMultipliers |-> FloatOfRatio(m[1], m[2])]

\* math.ceil(app_instances * self.autoscale_multiplier)
CeilTimes == [m \in CalcMultipliers |->
                [a \in 0..MaxCurrent |-> Ceil(FloatMulInt(a, MultiplierFloat[m]))]]

\* math.floor(app_instances / self.autoscale_multiplier)
FloorOver == [m \in CalcMultipliers |->
                [a \in 0..MaxCurrent |-> Floor(IntDivFloat(a, MultiplierFloat[m]))]]

\* scale_app with int() in place of math.ceil
\* the cap taken one instance late
CapAtMax_late(target, hi) == IF target > hi + 1 THEN hi ELSE target

\* if target_instances > self.max_instances: target_instances = self.max_instances
CapAtMax(target, hi) == IF target > hi THEN hi ELSE target

\* if target_instances < self.min_instances: target_instances = self.min_instances
RaiseToMin(target, lo) == IF target < lo THEN lo ELSE target

TargetInstances_trunc(instances, is_up, multiplier, lo, hi) ==
    IF is_up
    THEN CapAtMax((instances * multiplier[1]) \div multiplier[2], hi)
    ELSE RaiseToMin((instances * multiplier[2]) \div multiplier[1], lo)

TargetInstances(instances, is_up, multiplier, lo, hi) ==
    IF is_up
    THEN CapAtMax(CeilTimes[multiplier][instances], hi)
    ELSE RaiseToMin(FloorOver[multiplier][instances], lo)

\* if app_instances != target_instances: PUT
\* scale_app without the comparison
NeedsPut_always(instances, target) == TRUE

NeedsPut(instances, target) == instances # target

\* the PUT of target_instances and what becomes of it
PutInstances(instances, target, outcome) ==
    LET called == NeedsPut(instances, target)
    IN  [target    |-> <<target>>,
         put       |-> IF called THEN <<target>> ELSE <<>>,
         outcome   |-> IF called THEN outcome ELSE "none",
         raised    |-> called /\ outcome = "raised",
         instances |-> IF called /\ outcome = "success" THEN target ELSE instances]

scale_app(is_up, instances, outcome) ==
    PutInstances(instances,
                 TargetInstances(instances, is_up, autoscale_multiplier,
                                 min_instances, max_instances),
                 outcome)

(***************************************************************************)
(* Autoscaler.autoscale                                                    *)
(***************************************************************************)
\* the threshold taken one cycle early
Fires_early(streak, factor) == streak + 1 >= factor

Fires(streak, factor) == streak >= factor

\* the other counter left as it is
ResetOther_keep(streak) == streak

\* the other counter decayed by one in place of cleared
ResetOther_decay(streak) == IF streak > 0 THEN streak - 1 ELSE 0

\* self.cool_down = 0 / self.scale_up = 0 on a signal of the other polarity
ResetOther(streak) == 0

\* the counters left as they are on a signal within the thresholds
ResetWithin_keep(streak) == streak

\* self.scale_up = 0; self.cool_down = 0 on a signal within the thresholds
ResetWithin(streak) == 0

\* self.scale_up = 0 / self.cool_down = 0 after scale_app; the statement is
\* not reached when scale_app raised
ResetFired(streak, raised) == IF raised THEN streak ELSE 0

NoScale(instances) ==
    [target |-> <<>>, put |-> <<>>, outcome |-> "none", raised |-> FALSE,
     instances |-> instances]

\* self.scale_app(True); self.scale_up = 0, r being what scale_app did
ScaledUp(streak, down, r) ==
    [scale_up |-> ResetFired(streak, r.raised), cool_down |-> ResetOther(down),
     emitted |-> "ScaleUp", scale |-> r]

\* self.scale_app(False); self.cool_down = 0
ScaledDown(up, streak, r) ==
    [scale_up |-> ResetOther(up), cool_down |-> ResetFired(streak, r.raised),
     emitted |-> "ScaleDown", scale |-> r]

autoscale(direction, up, down, instances, outcome) ==
    IF direction = 1
    THEN IF Fires(up + 1, scale_up_factor)
         THEN ScaledUp(up + 1, down, scale_app(TRUE, instances, outcome))
         ELSE [scale_up |-> up + 1, cool_down |-> ResetOther(down),
               emitted |-> "NoOp", scale |-> NoScale(instances)]
    ELSE IF direction = -1
    THEN IF Fires(down + 1, cool_down_factor)
         THEN ScaledDown(up, down + 1, scale_app(FALSE, instances, outcome))
         ELSE [scale_up |-> ResetOther(up), cool_down |-> down + 1,
               emitted |-> "NoOp", scale |-> NoScale(instances)]
    ELSE [scale_up |-> ResetWithin(up), cool_down |-> ResetWithin(down),
          emitted |-> "NoOp", scale |-> NoScale(instances)]

(***************************************************************************)
(* ScaleByMemory on AbstractMode                                           *)
(***************************************************************************)
\* the comparison with the thresholds counted as outside the range
ModeDirection_closed(value, lo, hi) ==
    IF value[1] >= hi * value[2] THEN 1
    ELSE IF value[1] <= lo * value[2] THEN -1
    ELSE 0

\* AbstractMode.scale_direction(value); value is the exact quotient
\* value[1] / value[2]
ModeDirection(value, lo, hi) ==
    IF value[1] > hi * value[2] THEN 1
    ELSE IF value[1] < lo * value[2] THEN -1
    ELSE 0

\* get_mem_usage raising for a task without statistics
get_mem_usage_strict(stats) ==
    IF stats # <<>> /\ stats[2] # 0
    THEN [ok |-> TRUE, value |-> (100 * stats[1]) \div stats[2]]
    ELSE [ok |-> FALSE, value |-> 0]

\* get_mem_usage with a mem_limit_bytes of 0 taken as a utilization of 0
get_mem_usage_tolerant(stats) ==
    IF stats # <<>> /\ stats[2] # 0
    THEN [ok |-> TRUE, value |-> (100 * stats[1]) \div stats[2]]
    ELSE [ok |-> TRUE, value |-> 0]

\* ScaleByMemory.get_mem_usage: [ok, value]; ok = FALSE is the ValueError
\* for mem_limit_bytes == 0.  The statistics are drawn so that
\* 100 * (rss / limit) is exact.
get_mem_usage(stats) ==
    IF stats # <<>>
    THEN IF stats[2] = 0
         THEN [ok |-> FALSE, value |-> 0]
         ELSE [ok |-> TRUE, value |-> (100 * stats[1]) \div stats[2]]
    ELSE [ok |-> TRUE, value |-> 0]

\* sum(app_mem_values), of the first n values
RECURSIVE SumValues(_, _)
SumValues(values, n) ==
    IF n = 0 THEN 0 ELSE values[n] + SumValues(values, n - 1)

\* app_task_dict.items(): the tasks of the dictionary in its order
TaskOrder == <<"A", "B", "C">>

IsTaskOf(dict, t) == t \in DOMAIN dict

Items(dict) == SelectSeq(TaskOrder, LAMBDA t : IsTaskOf(dict, t))

\* for task, agent in app_task_dict.items():
\*     app_mem_values.append(self.get_mem_usage(task, agent))
\* from the i-th task on; fetched counts the calls of get_task_stats, named
\* is the task in the message of the ValueError that ended the loop
RECURSIVE MemLoop(_, _, _, _)
MemLoop(dict, items, i, values) ==
    IF i > Len(items)
    THEN [ok |-> TRUE, named |-> "none", fetched |-> i - 1, values |-> values]
    ELSE IF get_mem_usage(dict[items[i]]).ok
    THEN MemLoop(dict, items, i + 1,
                 Append(values, get_mem_usage(dict[items[i]]).value))
    ELSE [ok |-> FALSE, named |-> items[i], fetched |-> i, values |-> values]

\* raise ValueError("No marathon app task data found ...")
NoTaskData ==
    [ok |-> FALSE, error |-> "no_task_data", named |-> "none", fetched |-> 0,
     divisor |-> <<>>, value |-> <<0, 1>>]

\* sum(app_mem_values) / len(app_mem_values) after the loop l, or the
\* ValueError of get_mem_usage passed on
Averaged(dict, l) ==
    IF l.ok
    THEN [ok |-> Len(l.values) # 0,
          error |-> IF Len(l.values) # 0 THEN "none" ELSE "zero_division",
          named |-> "none", fetched |-> l.fetched,
          divisor |-> <<Len(l.values)>>,
          value |-> <<SumValues(l.values, Len(l.values)),
                      IF Len(l.values) # 0 THEN Len(l.values) ELSE 1>>]
    ELSE [ok |-> FALSE, error |-> "zero_limit", named |-> l.named,
          fetched |-> l.fetched, divisor |-> <<>>, value |-> <<0, 1>>]

\* get_value without the check of the empty task dictionary, the average of
\* no values taken as 0
get_value_unchecked(dict) ==
    IF DOMAIN dict = {}
    THEN [ok |-> TRUE, error |-> "none", named |-> "none", fetched |-> 0,
          divisor |-> <<0>>, value |-> <<0, 1>>]
    ELSE Averaged(dict, MemLoop(dict, Items(dict), 1, <<>>))

\* ScaleByMemory.get_value: ok = FALSE is an exception; value is the average
\* as the quotient value[1] / value[2]
get_value(dict) ==
    IF DOMAIN dict = {}
    THEN NoTaskData
    ELSE Averaged(dict, MemLoop(dict, Items(dict), 1, <<>>))

\* ScaleByMemory.scale_direction: return super().scale_direction(value), v
\* being what get_value did
DirectionOf(v, lo, hi) ==
    IF v.ok
    THEN [ok |-> TRUE, direction |-> ModeDirection(v.value, lo, hi)]
    ELSE [ok |-> FALSE, direction |-> 0]

scale_direction(dict, lo, hi) == DirectionOf(get_value(dict), lo, hi)

\* which of the inputs make ScaleByMemory.get_value raise: the empty task
\* dictionary and a task whose mem_limit_bytes is 0
SampleKind(dict) ==
    IF DOMAIN dict = {} THEN "empty_map"
    ELSE IF \E t \in DOMAIN dict : dict[t] # <<>> /\ dict[t][2] = 0 THEN "zero_limit"
    ELSE "ok"

(***************************************************************************)
(* Autoscaler.run                                                          *)
(***************************************************************************)
NoCycle ==
    [kind |-> "none", direction |-> <<>>, pre_up |-> 0, pre_down |-> 0,
     emitted |-> "NoOp", seen |-> 0, target |-> <<>>, put |-> <<>>,
     outcome |-> "none", sample |-> "none"]

\* hist.run: the direction of the most recent signal, for how many cycles it
\* has been counted, and whether these are consecutive cycles that began
\* with both counters at zero; hist.prev: the direction of the signal before
NoRun == [dir |-> <<>>, len |-> 0, clean |-> FALSE]

NoHist == [run |-> NoRun, prev |-> <<>>]

NoCalc ==
    [current |-> 0, is_up |-> TRUE, multiplier |-> <<2, 1>>, lo |-> 0, hi |-> 0,
     result |-> <<>>]

\* the state after Autoscaler.__init__
Init ==
    /\ pc = "start"
    /\ scale_up = 0
    /\ cool_down = 0
    /\ \E c \in Configs :
          /\ scale_up_factor = c[1]
          /\ cool_down_factor = c[2]
          /\ autoscale_multiplier = c[3]
          /\ min_instances = c[4]
          /\ max_instances = c[5]
    /\ \E r \in Ranges : min_range = r[1] /\ max_range = r[2]
    /\ app_instances \in 0..MaxReported
    /\ last = NoCycle
    /\ hist = NoHist
    /\ calc = NoCalc

\* run(): self.cool_down = 0; self.scale_up = 0, then enter the loop
Run ==
    /\ pc = "start"
    /\ pc' = "loop"
    /\ scale_up' = 0
    /\ cool_down' = 0
    /\ UNCHANGED <<config, app_instances, last, hist, calc>>

\* an iteration that does not reach autoscale: the counters and the
\* application are left alone
\* `continue` taken to re-enter `while True` at once, past `finally`
Skipped_nosleep(kind, sample) ==
    /\ pc = "loop"
    /\ pc' = IF kind = "not_found" THEN "loop" ELSE "timer"
    /\ last' = [NoCycle EXCEPT !.kind = kind, !.sample = sample,
                               !.pre_up = scale_up, !.pre_down = cool_down,
                               !.seen = app_instances]
    /\ hist' = [hist EXCEPT !.run.clean = FALSE]
    /\ UNCHANGED <<scale_up, cool_down, config, app_instances>>

Skipped(kind, sample) ==
    /\ pc = "loop"
    /\ pc' = "timer"
    /\ last' = [NoCycle EXCEPT !.kind = kind, !.sample = sample,
                               !.pre_up = scale_up, !.pre_down = cool_down,
                               !.seen = app_instances]
    /\ hist' = [hist EXCEPT !.run.clean = FALSE]
    /\ UNCHANGED <<scale_up, cool_down, config, app_instances>>

Skip(kind, sample) == Skipped(kind, sample) /\ UNCHANGED calc

\* if not self.marathon_app.app_exists(): log; continue
CycleAppNotFound == Skip("not_found", "none")

\* an exception other than a sampling error, e.g. from agent_stats.reset()
CycleUnexpected == Skip("exception", "none")

\* scaling_mode.scale_direction() raises: the metrics source fails, the task
\* dictionary is empty or a memory limit is 0
CycleSampleError ==
    \/ Skip("sample_error", "source_failure")
    \/ \E dict \in TaskDicts :
          /\ ~scale_direction(dict, min_range, max_range).ok
          /\ Skip("sample_error", SampleKind(dict))

NextRun(direction) ==
    IF scale_up = 0 /\ cool_down = 0
    THEN [dir |-> <<direction>>, len |-> 1, clean |-> TRUE]
    ELSE IF hist.run.dir = <<direction>>
    THEN [hist.run EXCEPT !.len = @ + 1]
    ELSE [dir |-> <<direction>>, len |-> 1, clean |-> FALSE]

\* the iteration that fed direction to autoscale, a being what autoscale did
Autoscaled(direction, a, sample) ==
    /\ a.scale_up <= MaxStreak
    /\ a.cool_down <= MaxStreak
    /\ scale_up' = a.scale_up
    /\ cool_down' = a.cool_down
    /\ app_instances' = a.scale.instances
    /\ last' = [kind |-> "signal", direction |-> <<direction>>,
                pre_up |-> scale_up, pre_down |-> cool_down,
                emitted |-> a.emitted, seen |-> app_instances,
                target |-> a.scale.target, put |-> a.scale.put,
                outcome |-> a.scale.outcome, sample |-> sample]
    /\ hist' = [run |-> NextRun(direction), prev |-> hist.run.dir]

\* direction = scaling_mode.scale_direction(); self.autoscale(direction), d
\* being what scale_direction did; an exception of scale_app is caught by
\* `except Exception`
Evaluate(d, outcome, sample) ==
    /\ d.ok
    /\ Autoscaled(d.direction,
                  autoscale(d.direction, scale_up, cool_down, app_instances, outcome),
                  sample)

CycleSignal ==
    /\ pc = "loop"
    /\ \E dict \in TaskDicts, outcome \in ActuatorOutcomes :
          Evaluate(scale_direction(dict, min_range, max_range), outcome,
                   SampleKind(dict))
    /\ pc' = "timer"
    /\ UNCHANGED <<config, calc>>

\* the exception an iteration raised inside `try`: the ValueError of
\* ScaleByMemory, an exception of a collaborator (metrics source, inventory,
\* actuator), or none (`continue` for a missing application raises nothing)
ExceptionOf(cycle) ==
    IF cycle.sample \in {"empty_map", "zero_limit"} THEN "ValueError"
    ELSE IF \/ cycle.kind \in {"exception", "sample_error"}
            \/ cycle.outcome = "raised"
    THEN "Exception"
    ELSE "none"

\* a handler `except ValueError` in place of `except Exception`
Handles_ValueError(exc) == exc = "ValueError"

\* except Exception as e: self.log.exception(e)
Handles(exc) == exc \in {"ValueError", "Exception"}

\* where control goes after `finally`: back to `while True`, or out of run()
\* with the exception no handler took
AfterTimer(exc) == IF exc = "none" \/ Handles(exc) THEN "loop" ELSE "exited"

\* finally: self.timer(); the iteration is over
Slept ==
    /\ pc = "timer"
    /\ pc' = AfterTimer(ExceptionOf(last))
    /\ last' = NoCycle
    /\ UNCHANGED <<scale_up, cool_down, config, app_instances, hist>>

Timer == Slept /\ UNCHANGED calc

\* the orchestrator's instance count changes between two iterations
InventoryChange ==
    /\ pc = "loop"
    /\ \E n \in 0..MaxReported : n # app_instances /\ app_instances' = n
    /\ UNCHANGED <<pc, scale_up, cool_down, config, last, hist, calc>>

Next ==
    \/ Run
    \/ CycleAppNotFound
    \/ CycleUnexpected
    \/ CycleSampleError
    \/ CycleSignal
    \/ Timer
    \/ InventoryChange

Spec == Init /\ [][Next]_vars

\* run() is one sequential thread: time.sleep(self.interval) returns and the
\* statement after a finished one is executed
SpecLive == Init /\ [][Next]_vars /\ WF_vars(Run) /\ WF_vars(Timer)

(***************************************************************************)
(* The target computation of scale_app on its own.                         *)
(***************************************************************************)
InitCalc ==
    /\ pc = "start"
    /\ scale_up = 0
    /\ cool_down = 0
    /\ scale_up_factor = 3
    /\ cool_down_factor = 3
    /\ autoscale_multiplier = <<2, 1>>
    /\ min_instances = 0
    /\ max_instances = 10
    /\ min_range = 20
    /\ max_range = 80
    /\ app_instances = 0
    /\ last = NoCycle
    /\ hist = NoHist
    /\ \E b \in CalcInstanceBounds :
          calc \in [current : 0..MaxCurrent, is_up : BOOLEAN,
                    multiplier : CalcMultipliers, lo : {b[1]}, hi : {b[2]},
                    result : {<<>>}]

CalcTarget ==
    /\ calc.result = <<>>
    /\ calc' = [calc EXCEPT !.result =
                  <<TargetInstances(calc.current, calc.is_up, calc.multiplier,
                                    calc.lo, calc.hi)>>]
    /\ UNCHANGED <<pc, scale_up, cool_down, config, app_instances, last, hist>>

NextCalc == CalcTarget

SpecCalc == InitCalc /\ [][NextCalc]_vars

(***************************************************************************)
(* The control loop in memory mode, with the task dictionary of the        *)
(* iteration and what get_value made of it kept in calc.                   *)
(***************************************************************************)
MemTasks == {"A", "B", "C"}

\* get_app_details() for up to three tasks
MemDicts == UNION {[S -> TaskStats] : S \in SUBSET MemTasks}

MemRanges == {<<20, 80>>, <<0, 80>>}

InitMem ==
    /\ pc = "start"
    /\ scale_up = 0
    /\ cool_down = 0
    /\ scale_up_factor = 2
    /\ cool_down_factor = 2
    /\ autoscale_multiplier = <<2, 1>>
    /\ min_instances = 1
    /\ max_instances = 10
    /\ \E r \in MemRanges : min_range = r[1] /\ max_range = r[2]
    /\ app_instances = 4
    /\ last = NoCycle
    /\ hist = NoHist
    /\ calc = NoCalc

\* direction = self.scaling_mode.scale_direction(); self.autoscale(direction)
\* for the task dictionary dict
MemSampled(dict) ==
    \/ /\ \E outcome \in ActuatorOutcomes :
             Evaluate(scale_direction(dict, min_range, max_range), outcome,
                      SampleKind(dict))
       /\ pc' = "timer"
       /\ UNCHANGED config
    \/ /\ ~scale_direction(dict, min_range, max_range).ok
       /\ Skipped("sample_error", SampleKind(dict))

MemCycle ==
    /\ pc = "loop"
    /\ \E dict \in MemDicts :
          /\ calc' = [dict |-> dict, sampled |-> get_value(dict)]
          /\ MemSampled(dict)

\* finally: self.timer(); the dictionary of the iteration is gone
MemTimer == Slept /\ calc' = NoCalc

NextMem ==
    \/ Run
    \/ MemCycle
    \/ MemTimer

SpecMem == InitMem /\ [][NextMem]_vars

(***************************************************************************)
(* The control loop under a signal that stays on one side of the range,    *)
(* with the application present and every PUT applied.                     *)
(***************************************************************************)
\* the direction scale_direction() returns in every iteration, kept in calc
Sustained(direction) == calc = [sustained |-> direction]

InitSustained ==
    /\ pc = "start"
    /\ scale_up = 0
    /\ cool_down = 0
    /\ \E c \in Configs :
          /\ scale_up_factor = c[1]
          /\ cool_down_factor = c[2]
          /\ autoscale_multiplier = c[3]
          /\ min_instances = c[4]
          /\ max_instances = c[5]
    /\ \E r \in Ranges : min_range = r[1] /\ max_range = r[2]
    /\ \/ Sustained(ABOVE) /\ app_instances \in 1..max_instances
       \/ Sustained(BELOW) /\ app_instances \in min_instances..MaxReported
    /\ last = NoCycle
    /\ hist = NoHist

\* direction = self.scaling_mode.scale_direction(); self.autoscale(direction)
\* with the sustained direction and a PUT that is applied
SustainedCycle ==
    /\ pc = "loop"
    /\ Evaluate([ok |-> TRUE, direction |-> calc.sustained], "success", "ok")
    /\ pc' = "timer"
    /\ UNCHANGED <<config, calc>>

NextSustained ==
    \/ Run
    \/ SustainedCycle
    \/ Timer

\* run() is one sequential thread, the collaborators answer and
\* time.sleep(self.interval) returns
SpecSustained ==
    /\ InitSustained
    /\ [][NextSustained]_vars
    /\ WF_vars(Run)
    /\ WF_vars(SustainedCycle)
    /\ WF_vars(Timer)

(***************************************************************************)
(* The composite modes 'and' and 'or' of MODES on two sub-modes, each with *)
(* its own range.                                                          *)
(***************************************************************************)
\* the 'and' mode answering as soon as one sub-mode is outside its range
AndMode_either(a, b) ==
    IF a = 1 \/ b = 1 THEN 1
    ELSE IF a = -1 \/ b = -1 THEN -1
    ELSE 0

\* ScaleByCPUAndMemory.scale_direction on the directions of its sub-modes
AndMode(a, b) ==
    IF a = 1 /\ b = 1 THEN 1
    ELSE IF a = -1 /\ b = -1 THEN -1
    ELSE 0

\* ScaleByCPUOrMemory.scale_direction on the directions of its sub-modes
OrMode(a, b) ==
    IF a = 1 \/ b = 1 THEN 1
    ELSE IF a = -1 \/ b = -1 THEN -1
    ELSE 0

\* (min, max) of the first and of the second dimension
CpuRanges == {<<2, 6>>}
MemRangesOfComposite == {<<3, 8>>, <<4, 4>>}

InitComposite ==
    /\ pc = "start"
    /\ scale_up = 0
    /\ cool_down = 0
    /\ scale_up_factor = 3
    /\ cool_down_factor = 3
    /\ autoscale_multiplier = <<2, 1>>
    /\ min_instances = 0
    /\ max_instances = 10
    /\ min_range = 20
    /\ max_range = 80
    /\ app_instances = 0
    /\ last = NoCycle
    /\ hist = NoHist
    /\ calc \in [cpu : 0..MaxSample, mem : 0..MaxSample,
                  cpu_range : CpuRanges, mem_range : MemRangesOfComposite,
                  result : {<<>>}]

\* the directions of the two sub-modes and what each composite mode makes
\* of them
Combined(a, b) ==
    [cpu |-> a, mem |-> b, and |-> AndMode(a, b), or |-> OrMode(a, b)]

Combine ==
    /\ calc.result = <<>>
    /\ calc' = [calc EXCEPT !.result =
                  <<Combined(ModeDirection(<<calc.cpu, 1>>, calc.cpu_range[1],
                                           calc.cpu_range[2]),
                             ModeDirection(<<calc.mem, 1>>, calc.mem_range[1],
                                           calc.mem_range[2]))>>]
    /\ UNCHANGED <<pc, scale_up, cool_down, config, app_instances, last, hist>>

NextComposite == Combine

SpecComposite == InitComposite /\ [][NextComposite]_vars

(***************************************************************************)
(* The threshold comparison of AbstractMode.scale_direction on its own.    *)
(***************************************************************************)
\* samples num/den, among them every threshold and values between two
\* thresholds
Samples == (0..MaxSample) \X {1, 2, 3}

\* (min_range, max_range) with min_range <= max_range, min_range = max_range
\* included
DirRanges == {r \in (0..MaxThreshold) \X (0..MaxThreshold) : r[1] <= r[2]}

InitDir ==
    /\ pc = "start"
    /\ scale_up = 0
    /\ cool_down = 0
    /\ scale_up_factor = 3
    /\ cool_down_factor = 3
    /\ autoscale_multiplier = <<2, 1>>
    /\ min_instances = 0
    /\ max_instances = 10
    /\ \E r \in DirRanges : min_range = r[1] /\ max_range = r[2]
    /\ app_instances = 0
    /\ last = NoCycle
    /\ hist = NoHist
    /\ calc \in [sample : Samples, result : {<<>>}]

CalcDirection ==
    /\ calc.result = <<>>
    /\ calc' = [calc EXCEPT !.result =
                  <<ModeDirection(calc.sample, min_range, max_range)>>]
    /\ UNCHANGED <<pc, scale_up, cool_down, config, app_instances, last, hist>>

NextDir == CalcDirection

SpecDir == InitDir /\ [][NextDir]_vars

(***************************************************************************)
(* Properties.  `last` describes the iteration that has just run (pc =     *)
(* "timer"); it is NoCycle elsewhere.                                      *)
(***************************************************************************)
Signalled(direction) == last.kind = "signal" /\ last.direction = <<direction>>

\* C1: in consecutive cycles with the same signal that start from zeroed
\* counters, the action is emitted on the cycle that completes the factor
\* and on no other, and the streak is zero after the emission.
C1_FiresOnceThenRestarts ==
    /\ (Signalled(ABOVE) /\ hist.run.clean) =>
          /\ (last.emitted = "ScaleUp") <=> (hist.run.len = scale_up_factor)
          /\ (last.emitted = "ScaleUp") => (scale_up = 0)
    /\ (Signalled(BELOW) /\ hist.run.clean) =>
          /\ (last.emitted = "ScaleDown") <=> (hist.run.len = cool_down_factor)
          /\ (last.emitted = "ScaleDown") => (cool_down = 0)

\* C2: at most one of scale_up and cool_down is non-zero and neither is
\* negative, in every state.
C2_AtMostOneStreak ==
    /\ scale_up >= 0
    /\ cool_down >= 0
    /\ scale_up = 0 \/ cool_down = 0

C2_Witness == Signalled(ABOVE) /\ last.pre_down >= 1 /\ scale_up >= 1

\* C3: a cycle that emits ScaleUp or ScaleDown ends with both counters at
\* zero, whatever the actuator call did.
C3_EmitResetsToIdle ==
    last.emitted # "NoOp" => (scale_up = 0 /\ cool_down = 0)

\* C4: a cycle with signal WITHIN emits nothing, calls no actuator and
\* leaves both counters at zero; fewer than scale_up_factor consecutive
\* ABOVE cycles from zeroed counters emit nothing either.
C4_WithinResets ==
    /\ Signalled(WITHIN) =>
          /\ last.emitted = "NoOp"
          /\ last.put = <<>>
          /\ app_instances = last.seen
          /\ scale_up = 0
          /\ cool_down = 0
    /\ (Signalled(ABOVE) /\ hist.run.clean /\ hist.run.len < scale_up_factor) =>
          /\ last.emitted = "NoOp"
          /\ last.put = <<>>

C4_Witness ==
    /\ Signalled(WITHIN)
    /\ hist.prev = <<ABOVE>>
    /\ last.pre_up >= 1
    /\ last.pre_up = scale_up_factor - 1
    /\ scale_up = 0

\* C5: a signal of the other polarity clears the accumulated streak and the
\* new streak counts from 1: after it the old counter is 0 and the new one
\* is 1, or 0 when that first count already fired.
C5_ReversalClears ==
    /\ (Signalled(ABOVE) /\ last.pre_down >= 1) =>
          /\ cool_down = 0
          /\ scale_up <= 1
          /\ scale_up = 0 => last.emitted = "ScaleUp"
    /\ (Signalled(BELOW) /\ last.pre_up >= 1) =>
          /\ scale_up = 0
          /\ cool_down <= 1
          /\ cool_down = 0 => last.emitted = "ScaleDown"

C5_Witness == Signalled(BELOW) /\ last.pre_up >= 2 /\ cool_down = 1 /\ scale_up = 0

\* C6 as stated: whatever the factors, a cycle whose signal is ABOVE (BELOW)
\* while the signal before it was not emits no ScaleUp (ScaleDown) and
\* calls no actuator.
C6_NoFireOnSingleSample ==
    /\ (Signalled(ABOVE) /\ hist.prev # <<ABOVE>>) =>
          (last.emitted # "ScaleUp" /\ last.put = <<>>)
    /\ (Signalled(BELOW) /\ hist.prev # <<BELOW>>) =>
          (last.emitted # "ScaleDown" /\ last.put = <<>>)

\* C6 amended: with a factor of at least 2, a cycle whose signal is ABOVE
\* (BELOW) while the signal before it was not emits no ScaleUp (ScaleDown)
\* and calls no actuator.
C6_NoFireOnSingleSampleFactor2 ==
    /\ (scale_up_factor >= 2 /\ Signalled(ABOVE) /\ hist.prev # <<ABOVE>>) =>
          (last.emitted # "ScaleUp" /\ last.put = <<>>)
    /\ (cool_down_factor >= 2 /\ Signalled(BELOW) /\ hist.prev # <<BELOW>>) =>
          (last.emitted # "ScaleDown" /\ last.put = <<>>)

C6_Witness ==
    /\ scale_up_factor = 2
    /\ Signalled(ABOVE)
    /\ hist.prev = <<BELOW>>
    /\ scale_up = 1
    /\ last.emitted = "NoOp"

\* the least integer not below n/d and the greatest integer not above n/d
RefCeil(n, d) == CHOOSE k \in 0..(n + 1) : k * d >= n /\ (k - 1) * d < n

RefFloor(n, d) == CHOOSE k \in 0..n : k * d <= n /\ (k + 1) * d > n

RefMin(a, b) == IF a <= b THEN a ELSE b

RefMax(a, b) == IF a >= b THEN a ELSE b

\* min(ceil(current * multiplier), hi) and max(floor(current / multiplier), lo)
\* for the multiplier num/den of the configuration
RefTarget(current, is_up, multiplier, lo, hi) ==
    IF is_up
    THEN RefMin(RefCeil(current * multiplier[1], multiplier[2]), hi)
    ELSE RefMax(RefFloor(current * multiplier[2], multiplier[1]), lo)

\* C7: the target computed by scale_app is min(ceil(current * multiplier),
\* maxInstances) for ScaleUp and max(floor(current / multiplier),
\* minInstances) for ScaleDown.
C7_TargetIsReference ==
    calc.result # <<>> =>
        calc.result[1] = RefTarget(calc.current, calc.is_up, calc.multiplier,
                                   calc.lo, calc.hi)

\* C8: the actuator is called only in a cycle that emitted an action whose
\* target differs from the current count; an emitted action whose target is
\* the current count calls no actuator and still resets the counters.
C8_PutOnlyOnChange ==
    /\ last.put # <<>> =>
          /\ last.emitted # "NoOp"
          /\ last.put = last.target
          /\ last.put # <<last.seen>>
    /\ (last.emitted # "NoOp" /\ last.target = <<last.seen>>) =>
          /\ last.put = <<>>
          /\ app_instances = last.seen
          /\ scale_up = 0
          /\ cool_down = 0

C8_Witness ==
    /\ last.emitted = "ScaleUp"
    /\ last.seen = max_instances
    /\ last.target = <<last.seen>>
    /\ last.put = <<>>
    /\ last.pre_up = scale_up_factor - 1

\* C9: with scale_up_factor 3, multiplier 1.5 and max_instances 10, three
\* consecutive ABOVE cycles from zeroed counters call no actuator in the
\* first two and, at 5 instances, call it once with 8 in the third.
C9_ThreeAboveScaleTo8 ==
    (/\ scale_up_factor = 3
     /\ autoscale_multiplier = <<3, 2>>
     /\ max_instances = 10
     /\ Signalled(ABOVE)
     /\ hist.run.clean) =>
        /\ hist.run.len \in {1, 2} => last.put = <<>>
        /\ (hist.run.len = 3 /\ last.seen = 5) => last.put = <<8>>

C9_Witness ==
    /\ scale_up_factor = 3
    /\ autoscale_multiplier = <<3, 2>>
    /\ max_instances = 10
    /\ Signalled(ABOVE)
    /\ hist.run.clean
    /\ hist.run.len = 3
    /\ last.seen = 5
    /\ last.put = <<8>>
    /\ last.outcome = "success"
    /\ app_instances = 8

\* C10: a cycle in which the application is not found or the sample cannot
\* be taken (metrics source fails, empty task dictionary, memory limit 0)
\* leaves scale_up and cool_down as they were and calls no actuator.
C10_NoSignalLeavesStreaks ==
    (\/ last.kind \in {"not_found", "sample_error"}
     \/ last.sample \in {"source_failure", "empty_map", "zero_limit"}) =>
        /\ scale_up = last.pre_up
        /\ cool_down = last.pre_down
        /\ last.emitted = "NoOp"
        /\ last.put = <<>>
        /\ app_instances = last.seen

C10_Witness ==
    /\ last.kind = "sample_error"
    /\ last.sample = "empty_map"
    /\ last.pre_up >= 1
    /\ scale_up = last.pre_up

\* C11: no cycle ends the control loop: whatever a cycle raised (sampling
\* error, actuator exception, any other exception) or skipped (application
\* not found), run() is never left, and the sleep step is always followed
\* by the top of the loop, where the next cycle starts.
C11_LoopNeverEnds ==
    /\ [](pc # "exited")
    /\ \A k \in {"not_found", "sample_error", "exception", "signal"} :
          (pc = "timer" /\ last.kind = k) ~> (pc = "loop")

C11_Witness ==
    /\ pc = "timer"
    /\ last.kind = "signal"
    /\ last.outcome = "raised"
    /\ ExceptionOf(last) = "Exception"

\* C12: for a range with min_range <= max_range the direction of a sample
\* is ABOVE exactly when the sample is greater than max_range, BELOW exactly
\* when it is less than min_range and WITHIN otherwise; a sample equal to
\* min_range or to max_range is WITHIN.
C12_DirectionByRange ==
    calc.result # <<>> =>
        /\ calc.result[1] \in {ABOVE, WITHIN, BELOW}
        /\ (calc.result[1] = ABOVE) <=> (calc.sample[1] > max_range * calc.sample[2])
        /\ (calc.result[1] = BELOW) <=> (calc.sample[1] < min_range * calc.sample[2])
        /\ (calc.sample[1] = max_range * calc.sample[2]) => (calc.result[1] = WITHIN)
        /\ (calc.sample[1] = min_range * calc.sample[2]) => (calc.result[1] = WITHIN)

C12_Witness ==
    /\ calc.result = <<WITHIN>>
    /\ min_range < max_range
    /\ calc.sample[2] = 2
    /\ calc.sample[1] = max_range * calc.sample[2]

\* the tasks of the iteration's dictionary whose statistics report a
\* mem_limit_bytes of 0, those without statistics, and the utilization
\* 100 * rss / limit of the others
ZeroLimitTasks(dict) == {t \in DOMAIN dict : dict[t] # <<>> /\ dict[t][2] = 0}

AbsentTasks(dict) == {t \in DOMAIN dict : dict[t] = <<>>}

RECURSIVE RefUsage(_, _)
RefUsage(dict, S) ==
    IF S = {} THEN 0
    ELSE LET t == CHOOSE x \in S : TRUE
         IN  (IF dict[t] = <<>> THEN 0 ELSE (100 * dict[t][1]) \div dict[t][2])
             + RefUsage(dict, S \ {t})

MemCycleDone == pc = "timer" /\ last.kind \in {"signal", "sample_error"}

\* C13: in memory mode, when a task of the dictionary reports a
\* mem_limit_bytes of 0, get_value raises an error that names a task with
\* limit 0 whatever the other tasks report, no average is computed, and the
\* cycle feeds no signal to autoscale.
C13_ZeroLimitFails ==
    (MemCycleDone /\ ZeroLimitTasks(calc.dict) # {}) =>
        /\ ~calc.sampled.ok
        /\ calc.sampled.error = "zero_limit"
        /\ calc.sampled.named \in ZeroLimitTasks(calc.dict)
        /\ calc.sampled.divisor = <<>>
        /\ last.kind = "sample_error"
        /\ last.direction = <<>>
        /\ scale_up = last.pre_up
        /\ cool_down = last.pre_down

C13_Witness ==
    /\ MemCycleDone
    /\ DOMAIN calc.dict = {"A", "B"}
    /\ calc.dict["A"] = <<50, 100>>
    /\ calc.dict["B"] = <<0, 0>>
    /\ calc.sampled.error = "zero_limit"
    /\ calc.sampled.named = "B"
    /\ last.kind = "sample_error"

\* C14: in memory mode a task without statistics adds 0 to the sum and is
\* counted in the divisor, and get_value does not raise; when no task has
\* statistics the sample is 0 and, for min_range > 0, the cycle feeds BELOW
\* to autoscale, which counts it in cool_down.
C14_AbsentCountsAsZero ==
    (MemCycleDone /\ DOMAIN calc.dict # {} /\ ZeroLimitTasks(calc.dict) = {}) =>
        /\ calc.sampled.ok
        /\ calc.sampled.divisor = <<Cardinality(DOMAIN calc.dict)>>
        /\ calc.sampled.value =
              <<RefUsage(calc.dict, DOMAIN calc.dict \ AbsentTasks(calc.dict)),
                Cardinality(DOMAIN calc.dict)>>
        /\ last.kind = "signal"
        /\ AbsentTasks(calc.dict) = DOMAIN calc.dict =>
              /\ calc.sampled.value[1] = 0
              /\ min_range > 0 =>
                    /\ Signalled(BELOW)
                    /\ scale_up = 0
                    /\ cool_down = last.pre_down + 1 \/ last.emitted = "ScaleDown"
              /\ min_range = 0 => Signalled(WITHIN)

C14_Witness ==
    /\ MemCycleDone
    /\ DOMAIN calc.dict = {"A", "B"}
    /\ AbsentTasks(calc.dict) = {"A", "B"}
    /\ calc.sampled.divisor = <<2>>
    /\ min_range > 0
    /\ Signalled(BELOW)
    /\ last.pre_down = 0
    /\ cool_down = 1

\* C15: an empty task dictionary makes get_value raise before any task's
\* statistics are fetched and before the average is taken; the divisor of
\* the average is never 0.
C15_EmptyMapFailsFirst ==
    MemCycleDone =>
        /\ calc.sampled.divisor # <<0>>
        /\ DOMAIN calc.dict = {} =>
              /\ ~calc.sampled.ok
              /\ calc.sampled.error = "no_task_data"
              /\ calc.sampled.fetched = 0
              /\ calc.sampled.divisor = <<>>
              /\ last.kind = "sample_error"
        /\ calc.sampled.divisor # <<>> =>
              calc.sampled.divisor = <<Cardinality(DOMAIN calc.dict)>>

C15_Witness ==
    /\ MemCycleDone
    /\ DOMAIN calc.dict = {}
    /\ calc.sampled.error = "no_task_data"
    /\ last.sample = "empty_map"
    /\ last.pre_down >= 1

\* C16: for every pair of sub-signals the 'and' mode is ABOVE exactly when
\* both are ABOVE, BELOW exactly when both are BELOW and WITHIN otherwise;
\* the 'or' mode is ABOVE exactly when at least one is ABOVE (also when the
\* other is BELOW), BELOW exactly when at least one is BELOW and none is
\* ABOVE, and WITHIN otherwise.
C16_CompositeTable ==
    calc.result # <<>> =>
        /\ (calc.result[1].and = ABOVE) <=>
              ({calc.result[1].cpu, calc.result[1].mem} = {ABOVE})
        /\ (calc.result[1].and = BELOW) <=>
              ({calc.result[1].cpu, calc.result[1].mem} = {BELOW})
        /\ calc.result[1].and \in {ABOVE, WITHIN, BELOW}
        /\ (calc.result[1].or = ABOVE) <=>
              (ABOVE \in {calc.result[1].cpu, calc.result[1].mem})
        /\ (calc.result[1].or = BELOW) <=>
              (/\ BELOW \in {calc.result[1].cpu, calc.result[1].mem}
               /\ ABOVE \notin {calc.result[1].cpu, calc.result[1].mem})
        /\ calc.result[1].or \in {ABOVE, WITHIN, BELOW}

C16_Witness ==
    /\ calc.result # <<>>
    /\ calc.result[1].cpu = ABOVE
    /\ calc.result[1].mem = BELOW
    /\ calc.result[1].or = ABOVE
    /\ calc.result[1].and = WITHIN

\* C17: every iteration of the loop, whichever path it takes (application
\* not found, sampling error, actuator exception, other exception, normal
\* completion), ends in the sleep step, and the sleep step is taken once and
\* leads to the top of the loop: no iteration starts from anywhere else.
C17_SleepOncePerCycle ==
    [][/\ (pc = "loop" /\ last'.kind # "none") => (pc' = "timer")
       /\ (pc = "timer") => (pc' = "loop" /\ last'.kind = "none")
       /\ (last'.kind # "none") => (pc = "loop" /\ last.kind = "none")]_vars

C17_Witness ==
    /\ pc = "timer"
    /\ last.kind = "not_found"
    /\ last.pre_up >= 1

\* C18: every instance count PUT to the orchestrator lies within
\* [min_instances, max_instances], whatever count the inventory reported
\* and for both directions.
C18_PutWithinBounds ==
    last.put # <<>> =>
        (min_instances <= last.put[1] /\ last.put[1] <= max_instances)

\* C19: a PUT issued by scale_app(True) sets a count greater than the count
\* the inventory reported, and a PUT issued by scale_app(False) a smaller
\* one.
C19_PutFollowsDirection ==
    last.put # <<>> =>
        /\ last.emitted = "ScaleUp" => last.put[1] > last.seen
        /\ last.emitted = "ScaleDown" => last.put[1] < last.seen

\* C20: under a signal that stays ABOVE, from 1 <= count <= max_instances
\* with every PUT applied, each ScaleUp below max_instances PUTs a greater
\* count, the count never passes max_instances, no PUT is made at
\* max_instances, and the count reaches max_instances and stays there;
\* under a signal that stays BELOW, from count >= min_instances, each
\* ScaleDown above min_instances PUTs a smaller count, no PUT is made at
\* min_instances, and the count reaches min_instances and stays there.
C20_SustainedReachesBound ==
    /\ [](Sustained(ABOVE) =>
            /\ app_instances <= max_instances
            /\ last.emitted # "ScaleDown"
            /\ (last.emitted = "ScaleUp" /\ last.seen < max_instances) =>
                  (last.put = <<app_instances>> /\ app_instances > last.seen)
            /\ last.seen = max_instances => last.put = <<>>)
    /\ [](Sustained(BELOW) =>
            /\ app_instances >= min_instances
            /\ last.emitted # "ScaleUp"
            /\ (last.emitted = "ScaleDown" /\ last.seen > min_instances) =>
                  (last.put = <<app_instances>> /\ app_instances < last.seen)
            /\ last.seen = min_instances => last.put = <<>>)
    /\ Sustained(ABOVE) => <>[](app_instances = max_instances)
    /\ Sustained(BELOW) => <>[](app_instances = min_instances)

C20_Witness ==
    /\ Sustained(ABOVE)
    /\ max_instances = 10
    /\ app_instances = 10
    /\ last.emitted = "ScaleUp"
    /\ last.seen = 10
    /\ last.put = <<>>
    /\ last.pre_up = scale_up_factor - 1
    /\ scale_up = 0

====
